---- MODULE Spec2Model ----
(***************************************************************************)
(* Representative-set selection of seqpicker (src/src/seqpicker/repset.py): *)
(* the pairwise-identity parser, the MixtureObjective and the accelerated   *)
(* greedy selector select_representatives with its heapq priority queue.    *)
(*                                                                          *)
(* Numbers are fixed point.  A similarity score s is held as s * ScoreUnit, *)
(* a mixture weight w as w * WeightUnit, a gain g as                        *)
(* g * ScoreUnit * WeightUnit and a ratio r as r * RatioUnit.               *)
(* float("inf") is the integer Infinity, larger than every gain.            *)
(***************************************************************************)
EXTENDS Integers, Sequences, FiniteSets, TLC

\* ------------------------------------------------------------------ bounds
MaxRows == 2
MaxSize == 2
MaxEvaluations == 9

\* ------------------------------------------------------- number encoding
ScoreUnit == 100
WeightUnit == 10
RatioUnit == 10
Infinity == 1000000

SeqIds == {1, 2, 3}
PctValues == {50, 100}
ObjectiveLists == {<<"summaxacross", "sumsumwithin">>, <<"summaxacross">>}
WeightLists == {<<5, 5>>, <<7, 7>>, <<15, -5>>, <<10>>}
SimFuncLists == {<<"compute_similarity", "compute_similarity">>,
                 <<"compute_similarity">>}
MaxSizeArgs == {<<>>} \cup {<<k>> : k \in 0..MaxSize}
ApproxRatios == {10, 15}
MinRelativeGainArgs == {<<>>, <<0>>, <<0 - 5>>}

None == <<>>
Abs(x) == IF x < 0 THEN 0 - x ELSE x
Range(s) == {s[i] : i \in 1..Len(s)}

VARIABLES
    pc,              \* "parse" | "parsed" | "built" | "loop" | "done" | "error" | "reduced"
    rows,            \* parse_pairwise_identities: the rows iterated so far
    raised,          \* the exception that ended the run, "" if none
    db,              \* Database: [order, entries]
    mixture_args,    \* None or the arguments MixtureObjective was called with
    objective,       \* None or <<MixtureObjective>>
    sim_funcs,       \* argument of select_representatives
    max_size,        \* argument of select_representatives: None or <<K>>
    max_representatives,
    min_relative_gain,
    representatives,
    priority_queue,
    objective_data,
    evaluations_since_last_selection,
    invoked,         \* objective operations called so far
    rejected_since_selection,  \* the IDs requeued since the last acceptance
    reduce_args,     \* None or <<arguments of reduce_database_redundancy>>
    reduce_result,   \* None or <<outcome of reduce_database_redundancy>>
    sim_pct,         \* None or <<pct_identical given to compute_similarity>>
    sim_results      \* log10_e -> what compute_similarity returned for it

vars == <<pc, rows, raised, db, mixture_args, objective, sim_funcs, max_size, max_representatives,
          min_relative_gain, representatives, priority_queue, objective_data,
          evaluations_since_last_selection, invoked, rejected_since_selection,
          reduce_args, reduce_result, sim_pct, sim_results>>

\* the state of a call of core.reduce_database_redundancy
corevars == <<reduce_args, reduce_result>>

\* the state of the calls of compute_similarity on one percent identity
simvars == <<sim_pct, sim_results>>

\* ------------------------------------------------------------- Database
\* A dict is its insertion order plus its items.
EmptyMap == [x \in {} |-> 0]
Keys(d) == Range(d.order)
EmptyDb == [order |-> <<>>, entries |-> EmptyMap]

\* dict item assignment: m[k] = v
SetItem(m, k, v) == [x \in (DOMAIN m) \cup {k} |-> IF x = k THEN v ELSE m[x]]

\* Both links of a row are stored under seq_id2.
ParseRowIntoOneEntry(d, seq_id1, seq_id2, pident) ==
    LET order1 == IF seq_id1 \in Range(d.order) THEN d.order
                  ELSE Append(d.order, seq_id1)
        order2 == IF seq_id2 \in Range(order1) THEN order1
                  ELSE Append(order1, seq_id2)
        fresh == [neighbors |-> EmptyMap, in_neighbors |-> EmptyMap]
        e0 == [x \in Range(order2) |->
                 IF x \in DOMAIN d.entries THEN d.entries[x] ELSE fresh]
        neighbor_info == [log10_e |-> -100, pct_identical |-> pident]
        e1 == [e0 EXCEPT ![seq_id2].neighbors =
                 SetItem(e0[seq_id2].neighbors, seq_id1, neighbor_info)]
        e2 == [e1 EXCEPT ![seq_id2].in_neighbors =
                 SetItem(e1[seq_id2].in_neighbors, seq_id1, neighbor_info)]
    IN [order |-> order2, entries |-> e2]

\* One iteration of the row loop of parse_pairwise_identities.
ParseRowInto(d, seq_id1, seq_id2, pident) ==
    LET order1 == IF seq_id1 \in Range(d.order) THEN d.order
                  ELSE Append(d.order, seq_id1)
        order2 == IF seq_id2 \in Range(order1) THEN order1
                  ELSE Append(order1, seq_id2)
        fresh == [neighbors |-> EmptyMap, in_neighbors |-> EmptyMap]
        e0 == [x \in Range(order2) |->
                 IF x \in DOMAIN d.entries THEN d.entries[x] ELSE fresh]
        neighbor_info == [log10_e |-> -100, pct_identical |-> pident]
        e1 == [e0 EXCEPT ![seq_id2].neighbors =
                 SetItem(e0[seq_id2].neighbors, seq_id1, neighbor_info)]
        e2 == [e1 EXCEPT ![seq_id1].in_neighbors =
                 SetItem(e1[seq_id1].in_neighbors, seq_id2, neighbor_info)]
    IN [order |-> order2, entries |-> e2]

\* ---------------------------------------------------- SimilarityFunction
compute_similarity_unscaled(log10_e, pct_identical) ==
    pct_identical * ScoreUnit

compute_similarity(log10_e, pct_identical) == (pct_identical * ScoreUnit) \div 100

ApplySim(sim, info) ==
    IF sim = "compute_similarity"
    THEN compute_similarity(info.log10_e, info.pct_identical)
    ELSE 0

RECURSIVE SumFn(_)
SumFn(f) ==
    IF DOMAIN f = {} THEN 0
    ELSE LET x == CHOOSE y \in DOMAIN f : TRUE
         IN f[x] + SumFn([y \in (DOMAIN f) \ {x} |-> f[y]])

Max2(a, b) == IF a > b THEN a ELSE b
Min2(a, b) == IF a < b THEN a ELSE b

\* ------------------------------------------- Facility Location Objective
\* State: best similarity so far per sequence, a sentinel below any score.
UncoveredSentinel == 0 - ScoreUnit

\* The sequences q that candidate c scores against, q being the query and
\* c the target; a sequence covers itself with score 1.
CoveredBy(d, c) == (DOMAIN d.entries[c].in_neighbors) \cup {c}

SimTo(d, q, c, sim) ==
    IF q = c THEN ScoreUnit ELSE ApplySim(sim, d.entries[c].in_neighbors[q])

summaxacross_base_data(d, sim) == [q \in Keys(d) |-> UncoveredSentinel]

\* evaluate(S): each sequence scores its best similarity to a member of S
\* that covers it, 0 when no member covers it.
SetMax(S) == CHOOSE x \in S : \A y \in S : x >= y

summaxacross_eval(d, S, sim) ==
    SumFn([q \in Keys(d) |->
              SetMax({SimTo(d, q, r, sim) : r \in {r \in S : q \in CoveredBy(d, r)}}
                     \cup {0})])

\* Every difference counts, an improvement or not.
summaxacross_diff_unclamped(d, c, sim, data) ==
    SumFn([q \in CoveredBy(d, c) |-> SimTo(d, q, c, sim) - data[q]])

summaxacross_diff(d, c, sim, data) ==
    SumFn([q \in CoveredBy(d, c) |-> Max2(0, SimTo(d, q, c, sim) - data[q])])

summaxacross_update(d, c, sim, data) ==
    [q \in DOMAIN data |->
        IF q \in CoveredBy(d, c) /\ SimTo(d, q, c, sim) > data[q]
        THEN SimTo(d, q, c, sim) ELSE data[q]]

\* ------------------------------------------------- Redundancy Objective
\* State: running total of pairwise similarity among the selected, and the
\* selected set itself.
SimWithin(d, c, selected, sim) ==
    SumFn([r \in (DOMAIN d.entries[c].neighbors) \cap selected |->
              ApplySim(sim, d.entries[c].neighbors[r])])

sumsumwithin_base_data(d, sim) == [total |-> 0, selected |-> {}]

sumsumwithin_diff(d, c, sim, data) == 0 - SimWithin(d, c, data.selected, sim)

sumsumwithin_update(d, c, sim, data) ==
    [total |-> data.total + SimWithin(d, c, data.selected, sim),
     selected |-> data.selected \cup {c}]

\* ------------------------------------------------ ObjectiveFunction fields
base_data_func(obj, d, sim) ==
    IF obj = "summaxacross" THEN summaxacross_base_data(d, sim)
    ELSE sumsumwithin_base_data(d, sim)

diff_func(obj, d, c, sim, data) ==
    IF obj = "summaxacross" THEN summaxacross_diff(d, c, sim, data)
    ELSE sumsumwithin_diff(d, c, sim, data)

update_func(obj, d, c, sim, data) ==
    IF obj = "summaxacross" THEN summaxacross_update(d, c, sim, data)
    ELSE sumsumwithin_update(d, c, sim, data)

\* ------------------------------------------------------ MixtureObjective
\* The length check is missing.
MixtureInitNeverRaises(objectives, weights) == FALSE

\* MixtureObjective.__init__: TRUE when the constructor raises ValueError.
MixtureInitRaises(objectives, weights) == Len(objectives) # Len(weights)

NewMixture(objectives, weights) == [objectives |-> objectives, weights |-> weights]

\* zip() stops at the shortest of its arguments.
ZipLen3(a, b, c) == Min2(Len(a), Min2(Len(b), Len(c)))

compute_marginal_gain(mix, d, seq_id, sims, data) ==
    LET n == Min2(ZipLen3(mix.objectives, sims, mix.weights), Len(data))
    IN SumFn([i \in 1..n |->
                mix.weights[i] * diff_func(mix.objectives[i], d, seq_id, sims[i], data[i])])

\* Only the first objective's data is advanced.
update_data_first_only(mix, d, seq_id, sims, data) ==
    LET n == ZipLen3(mix.objectives, sims, data)
    IN [i \in 1..n |-> IF i = 1
                       THEN update_func(mix.objectives[i], d, seq_id, sims[i], data[i])
                       ELSE data[i]]

update_data(mix, d, seq_id, sims, data) ==
    LET n == ZipLen3(mix.objectives, sims, data)
    IN [i \in 1..n |-> update_func(mix.objectives[i], d, seq_id, sims[i], data[i])]

\* ----------------------------------------------------------------- heapq
\* Items are compared by key alone, equal keys keep their positions.
KeyOnlyLess(x, y) == x[1] < y[1]

\* Heap items are (key, seq_id) tuples compared as Python compares tuples.
TupleLess(x, y) == x[1] < y[1] \/ (x[1] = y[1] /\ x[2] < y[2])

\* Positions are 0-based as in heapq; heap[pos + 1] is the item at pos.
RECURSIVE siftdown_loop(_, _, _, _)
siftdown_loop(heap, startpos, pos, newitem) ==
    IF pos > startpos
    THEN LET parentpos == (pos - 1) \div 2
             parent == heap[parentpos + 1]
         IN IF TupleLess(newitem, parent)
            THEN siftdown_loop([heap EXCEPT ![pos + 1] = parent],
                               startpos, parentpos, newitem)
            ELSE [heap EXCEPT ![pos + 1] = newitem]
    ELSE [heap EXCEPT ![pos + 1] = newitem]

siftdown(heap, startpos, pos) == siftdown_loop(heap, startpos, pos, heap[pos + 1])

RECURSIVE siftup_loop(_, _, _)
siftup_loop(heap, pos, childpos) ==
    IF childpos < Len(heap)
    THEN LET rightpos == childpos + 1
             smaller == IF rightpos < Len(heap)
                           /\ ~TupleLess(heap[childpos + 1], heap[rightpos + 1])
                        THEN rightpos ELSE childpos
         IN siftup_loop([heap EXCEPT ![pos + 1] = heap[smaller + 1]],
                        smaller, 2 * smaller + 1)
    ELSE [heap |-> heap, pos |-> pos]

siftup(heap, pos) ==
    LET newitem == heap[pos + 1]
        r == siftup_loop(heap, pos, 2 * pos + 1)
    IN siftdown([r.heap EXCEPT ![r.pos + 1] = newitem], pos, r.pos)

RECURSIVE heapify_from(_, _)
heapify_from(x, i) == IF i < 0 THEN x ELSE heapify_from(siftup(x, i), i - 1)

heapify(x) == heapify_from(x, (Len(x) \div 2) - 1)

heappush(heap, item) == siftdown(Append(heap, item), 0, Len(heap))

\* heappop on a non-empty heap: the item returned and the heap left.
heappop(heap) ==
    LET lastelt == heap[Len(heap)]
        rest == SubSeq(heap, 1, Len(heap) - 1)
    IN IF rest # <<>>
       THEN [item |-> rest[1], heap |-> siftup([rest EXCEPT ![1] = lastelt], 0)]
       ELSE [item |-> lastelt, heap |-> rest]

\* ------------------------------------------------ select_representatives
NoError == <<>>
EmptyDatabaseError == <<"ValueError", "Empty sequence database">>
SimFuncsError ==
    <<"ValueError", "Number of similarity functions must match number of objectives">>
MixtureError == <<"ValueError", "Number of objectives must match number of weights">>

initial_priority == 0 - Infinity
gain_denominator_offset == (ScoreUnit * WeightUnit) \div 100

\* The empty-database check is missing.
SelectRaisesNoEmptyCheck(d, mix, sims) ==
    IF Len(sims) # Len(mix.objectives) THEN SimFuncsError ELSE NoError

\* The check of the number of similarity functions is missing.
SelectRaisesNoCountCheck(d, mix, sims) ==
    IF Keys(d) = {} THEN EmptyDatabaseError ELSE NoError

\* The argument checks at the head of the function, in their order.
SelectRaises(d, mix, sims) ==
    IF Keys(d) = {} THEN EmptyDatabaseError
    ELSE IF Len(sims) # Len(mix.objectives) THEN SimFuncsError
    ELSE NoError

MaxRepresentatives(ms) == IF ms = None THEN Infinity ELSE ms[1]

MinRelativeGain(mrg, approx_ratio) ==
    IF mrg # None THEN mrg[1] ELSE approx_ratio - RatioUnit

\* Every candidate starts with the bound 0 instead of the sentinel.
InitialQueueZeroKeys(d) ==
    heapify([i \in 1..Len(d.order) |-> <<0, d.order[i]>>])

InitialQueue(d) == heapify([i \in 1..Len(d.order) |-> <<initial_priority, d.order[i]>>])

InitialData(d, mix, sims) ==
    LET n == Min2(Len(mix.objectives), Len(sims))
    IN [i \in 1..n |-> base_data_func(mix.objectives[i], d, sims[i])]

\* Off by one: the loop also runs when the list already holds maxrep IDs.
LoopConditionOffByOne(reps, pq, maxrep) == Len(reps) <= maxrep /\ Len(pq) > 1

LoopCondition(reps, pq, maxrep) == Len(reps) < maxrep /\ Len(pq) > 1

\* The queue key is read without undoing its negation.
NextPossibleGainNotNegated(pq) == IF pq # <<>> THEN pq[1][1] ELSE 0 - Infinity

NextPossibleGain(pq) == IF pq # <<>> THEN 0 - pq[1][1] ELSE 0 - Infinity

\* The comparison is strict: a tie is not accepted.
ShouldSelectStrict(actual_gain, next_possible_gain, mrg) ==
    IF next_possible_gain = Infinity THEN FALSE
    ELSE IF next_possible_gain = 0 - Infinity THEN TRUE
    ELSE (actual_gain - next_possible_gain) * RatioUnit
            > mrg * (Abs(actual_gain) + gain_denominator_offset)

\* relative_gain_ratio >= min_relative_gain, the ratio being
\* (actual_gain - next_possible_gain) / (abs(actual_gain) + offset); an
\* infinite next_possible_gain makes the ratio -inf or +inf.
ShouldSelect(actual_gain, next_possible_gain, mrg) ==
    IF next_possible_gain = Infinity THEN FALSE
    ELSE IF next_possible_gain = 0 - Infinity THEN TRUE
    ELSE (actual_gain - next_possible_gain) * RatioUnit
            >= mrg * (Abs(actual_gain) + gain_denominator_offset)

\* A rejected candidate is dropped instead of pushed back.
QueueAfterNeverPush(selected, rest, actual_gain, seq_id) == rest

\* A selected candidate is pushed back like a rejected one.
QueueAfterAlwaysPush(selected, rest, actual_gain, seq_id) ==
    heappush(rest, <<0 - actual_gain, seq_id>>)

QueueAfter(selected, rest, actual_gain, seq_id) ==
    IF selected THEN rest ELSE heappush(rest, <<0 - actual_gain, seq_id>>)

\* One iteration of the main selection loop on the run state st.
LoopBody(st, d, mix, sims, mrg) ==
    LET popped == heappop(st.priority_queue)
        seq_id == popped.item[2]
        actual_gain == compute_marginal_gain(mix, d, seq_id, sims, st.objective_data)
        next_possible_gain == NextPossibleGain(popped.heap)
        selected == ShouldSelect(actual_gain, next_possible_gain, mrg)
    IN [representatives |->
            IF selected THEN Append(st.representatives, seq_id) ELSE st.representatives,
        objective_data |->
            IF selected THEN update_data(mix, d, seq_id, sims, st.objective_data)
            ELSE st.objective_data,
        evaluations |->
            IF selected THEN 0 ELSE Min2(st.evaluations + 1, MaxEvaluations),
        priority_queue |-> QueueAfter(selected, popped.heap, actual_gain, seq_id),
        selected |-> selected]

\* The statement after the loop is missing.
FinalAppendSkipped(reps, pq, maxrep) == reps

\* The statement after the loop: add the final sequence if needed and possible.
FinalAppend(reps, pq, maxrep) ==
    IF Len(pq) = 1 /\ Len(reps) < maxrep THEN Append(reps, pq[1][2]) ELSE reps

\* The iterations a run is followed for; an exact run needs fewer.
LoopBudget(d) == 2 * Len(d.order) * Len(d.order) + 2

\* The main selection loop run from st to its end, then the final append;
\* <<0>> when the loop is still running after budget iterations.
RECURSIVE RunLoop(_, _, _, _, _, _, _)
RunLoop(st, d, mix, sims, maxrep, mrg, budget) ==
    IF ~LoopCondition(st.representatives, st.priority_queue, maxrep)
    THEN FinalAppend(st.representatives, st.priority_queue, maxrep)
    ELSE IF budget = 0 THEN <<0>>
    ELSE RunLoop(LoopBody(st, d, mix, sims, mrg), d, mix, sims, maxrep, mrg, budget - 1)

\* The list select_representatives returns for valid arguments.
SelectResult(d, mix, sims, maxrep, mrg) ==
    RunLoop([representatives |-> <<>>, priority_queue |-> InitialQueue(d),
             objective_data |-> InitialData(d, mix, sims), evaluations |-> 0],
            d, mix, sims, maxrep, mrg, LoopBudget(d))

RunState ==
    [representatives |-> representatives, priority_queue |-> priority_queue,
     objective_data |-> objective_data,
     evaluations |-> evaluations_since_last_selection]

\* ------------------------------------------------------------- core.py

\* the names repset.py defines at module level
RepsetNames ==
    {"NeighborInfo", "NeighborDict", "Database", "SimilarityFunction",
     "ObjectiveFunction", "MixtureObjective", "compute_similarity",
     "parse_pairwise_identities", "select_representatives",
     "write_representatives"}

\* the names reduce_database_redundancy reads from repset on its RepSet
\* branch, in the order it reads them
RepsetNamesUsed ==
    <<"get_pident", "MixtureObjective", "summaxacross", "sumsumwithin",
      "fraciden", "accelerated_greedy_selection">>

InputFasta == "in.fasta"
OutputFastaArgs == {None, <<"out.fasta">>}

\* Path(...).resolve(), and input_fasta.with_stem(stem + "_reduced")
ResolvedPath(path) == <<"resolve", path>>
ResolvedOutput(input_fasta, output_fasta) ==
    IF output_fasta = None
    THEN <<"with_stem_reduced", ResolvedPath(input_fasta)>>
    ELSE ResolvedPath(output_fasta[1])

Returned(value) == [kind |-> "return", value |-> value]
Raised(exception) == [kind |-> "raise", value |-> exception]

\* reduce_database_redundancy with the external tools (cd-hit, mafft,
\* esl-alipid) succeeding: a function that ends without a return statement
\* returns None.
reduce_database_redundancy(input_fasta, output_fasta, cdhit, maxsize) ==
    LET out == ResolvedOutput(input_fasta, output_fasta)
        missing == {i \in 1..Len(RepsetNamesUsed) : RepsetNamesUsed[i] \notin RepsetNames}
    IN IF ~cdhit /\ maxsize = None
       THEN Returned(<<out>>)
       ELSE IF maxsize # None /\ missing # {}
       THEN Raised("AttributeError")
       ELSE Returned(None)

\* ---------------------------------------------------------------- actions
StartState ==
    /\ pc = "parse"
    /\ rows = <<>>
    /\ raised = NoError
    /\ db = EmptyDb
    /\ mixture_args = None
    /\ objective = None
    /\ sim_funcs = <<>>
    /\ max_size = None
    /\ max_representatives = 0
    /\ min_relative_gain = 0
    /\ representatives = <<>>
    /\ priority_queue = <<>>
    /\ objective_data = <<>>
    /\ evaluations_since_last_selection = 0
    /\ invoked = {}
    /\ rejected_since_selection = {}
    /\ reduce_args = None
    /\ reduce_result = None
    /\ sim_results = EmptyMap

Init ==
    /\ StartState
    /\ sim_pct = None

\* parse_pairwise_identities reads one more row of the table.
ParseRow ==
    /\ UNCHANGED <<corevars, simvars>>
    /\ pc = "parse"
    /\ Len(rows) < MaxRows
    /\ \E seq_id1 \in SeqIds, seq_id2 \in SeqIds, pident \in PctValues :
          /\ rows' = Append(rows, <<seq_id1, seq_id2, pident>>)
          /\ db' = ParseRowInto(db, seq_id1, seq_id2, pident)
    /\ UNCHANGED <<pc, raised, mixture_args, objective, sim_funcs, max_size, max_representatives,
                   min_relative_gain, representatives, priority_queue,
                   objective_data, evaluations_since_last_selection, invoked,
                   rejected_since_selection>>

\* parse_pairwise_identities returns db; its locals are gone.
ParseReturn ==
    /\ UNCHANGED <<corevars, simvars>>
    /\ pc = "parse"
    /\ pc' = "parsed"
    /\ rows' = <<>>
    /\ UNCHANGED <<raised, db, mixture_args, objective, sim_funcs, max_size,
                   max_representatives, min_relative_gain, representatives,
                   priority_queue, objective_data,
                   evaluations_since_last_selection, invoked,
                   rejected_since_selection>>

\* MixtureObjective(objectives, weights)
MixtureInit ==
    /\ UNCHANGED <<corevars, simvars>>
    /\ pc = "parsed"
    /\ \E objectives \in ObjectiveLists, weights \in WeightLists :
          /\ mixture_args' = <<objectives, weights>>
          /\ IF MixtureInitRaises(objectives, weights)
             THEN /\ pc' = "error"
                  /\ raised' = MixtureError
                  /\ UNCHANGED objective
             ELSE /\ pc' = "built"
                  /\ objective' = <<NewMixture(objectives, weights)>>
                  /\ UNCHANGED raised
    /\ UNCHANGED <<rows, db, sim_funcs, max_size, max_representatives,
                   min_relative_gain, representatives, priority_queue,
                   objective_data, evaluations_since_last_selection, invoked,
                   rejected_since_selection>>

\* The call of select_representatives up to the main selection loop.
SelectCall ==
    /\ UNCHANGED <<corevars, simvars>>
    /\ pc = "built"
    /\ \E sims \in SimFuncLists, ms \in MaxSizeArgs,
          approx_ratio \in ApproxRatios, mrg \in MinRelativeGainArgs :
          /\ sim_funcs' = sims
          /\ max_size' = ms
          /\ IF SelectRaises(db, objective[1], sims) # NoError
             THEN /\ pc' = "error"
                  /\ raised' = SelectRaises(db, objective[1], sims)
                  /\ UNCHANGED <<max_representatives, min_relative_gain,
                                 representatives, priority_queue, objective_data,
                                 evaluations_since_last_selection, invoked,
                   rejected_since_selection>>
             ELSE /\ pc' = "loop"
                  /\ max_representatives' = MaxRepresentatives(ms)
                  /\ min_relative_gain' = MinRelativeGain(mrg, approx_ratio)
                  /\ representatives' = <<>>
                  /\ priority_queue' = InitialQueue(db)
                  /\ objective_data' = InitialData(db, objective[1], sims)
                  /\ evaluations_since_last_selection' = 0
                  /\ invoked' = invoked \cup {"heapify", "base_data_func"}
                  /\ rejected_since_selection' = {}
                  /\ UNCHANGED raised
    /\ UNCHANGED <<rows, db, mixture_args, objective>>

\* One iteration of the main selection loop.
LoopStep ==
    /\ UNCHANGED <<corevars, simvars>>
    /\ pc = "loop"
    /\ LoopCondition(representatives, priority_queue, max_representatives)
    /\ LET st == LoopBody(RunState, db, objective[1], sim_funcs, min_relative_gain)
       IN /\ representatives' = st.representatives
          /\ priority_queue' = st.priority_queue
          /\ objective_data' = st.objective_data
          /\ evaluations_since_last_selection' = st.evaluations
          /\ invoked' = invoked \cup {"heappop", "diff_func"}
                           \cup (IF st.selected THEN {"update_func"} ELSE {"heappush"})
          /\ rejected_since_selection' =
                IF st.selected THEN {}
                ELSE rejected_since_selection
                        \cup {heappop(priority_queue).item[2]}
    /\ UNCHANGED <<pc, rows, raised, db, mixture_args, objective, sim_funcs, max_size,
                   max_representatives, min_relative_gain>>

\* The loop condition fails: the final append and the return.
Return ==
    /\ UNCHANGED <<corevars, simvars>>
    /\ pc = "loop"
    /\ ~LoopCondition(representatives, priority_queue, max_representatives)
    /\ representatives' = FinalAppend(representatives, priority_queue, max_representatives)
    /\ pc' = "done"
    /\ UNCHANGED <<rows, raised, db, mixture_args, objective, sim_funcs, max_size,
                   max_representatives, min_relative_gain, priority_queue,
                   objective_data, evaluations_since_last_selection, invoked,
                   rejected_since_selection>>

\* A call of core.reduce_database_redundancy, from the start of the program.
ReduceDatabaseRedundancy ==
    /\ UNCHANGED simvars
    /\ pc = "parse"
    /\ rows = <<>>
    /\ reduce_args = None
    /\ \E output_fasta \in OutputFastaArgs, cdhit \in BOOLEAN, maxsize \in MaxSizeArgs :
          /\ reduce_args' = <<[input_fasta |-> InputFasta, output_fasta |-> output_fasta,
                               cdhit |-> cdhit, maxsize |-> maxsize]>>
          /\ reduce_result' = <<reduce_database_redundancy(InputFasta, output_fasta,
                                                           cdhit, maxsize)>>
    /\ pc' = "reduced"
    /\ UNCHANGED <<rows, raised, db, mixture_args, objective, sim_funcs, max_size,
                   max_representatives, min_relative_gain, representatives,
                   priority_queue, objective_data,
                   evaluations_since_last_selection, invoked,
                   rejected_since_selection>>

Next == ParseRow \/ ParseReturn \/ MixtureInit \/ SelectCall \/ LoopStep \/ Return
        \/ ReduceDatabaseRedundancy

Spec == Init /\ [][Next]_vars

\* The interpreter runs the loop and the return whenever they can run.
FairSpec == Spec /\ WF_vars(LoopStep) /\ WF_vars(Return)

\* ------------------------------------------------ compute_similarity alone

LogEValues == {-100, -5, 0}
PctInputs == 0..100

SimInit ==
    /\ StartState
    /\ sim_pct \in {<<pct_identical>> : pct_identical \in PctInputs}

\* compute_similarity(log10_e, pct_identical) is called with one more log10_e.
SimCall ==
    /\ sim_pct # None
    /\ \E log10_e \in LogEValues \ DOMAIN sim_results :
          sim_results' = SetItem(sim_results, log10_e,
                                 compute_similarity(log10_e, sim_pct[1]))
    /\ UNCHANGED <<pc, rows, raised, db, mixture_args, objective, sim_funcs, max_size,
                   max_representatives, min_relative_gain, representatives,
                   priority_queue, objective_data,
                   evaluations_since_last_selection, invoked,
                   rejected_since_selection, corevars, sim_pct>>

SimNext == SimCall

SimSpec == SimInit /\ [][SimNext]_vars


\* ------------------------------------------------------------ properties
SelectCalled == pc \in {"loop", "done", "error"} /\ objective # None

NoDuplicates(s) == \A i, j \in 1..Len(s) : i # j => s[i] # s[j]

\* C1: with a target size K >= 1 the selected list never holds more than K
\* IDs, during the run and when it is returned.
C1_AtMostK ==
    (SelectCalled /\ max_size # None /\ max_size[1] >= 1)
        => Len(representatives) <= max_size[1]

\* The run stopped because K was reached while candidates were still queued.
C1_Witness ==
    /\ pc = "done"
    /\ max_size # None /\ max_size[1] >= 1
    /\ Len(representatives) = max_size[1]
    /\ Len(priority_queue) > 1

\* C2: the selected list never holds an ID twice and holds only keys of the
\* database, in every state of the run and in the returned list.
C2_DistinctKeys ==
    /\ NoDuplicates(representatives)
    /\ Range(representatives) \subseteq Keys(db)

\* A whole database of three IDs was returned after rejections and requeues,
\* the last ID by the final append.
C2_Witness ==
    /\ pc = "done"
    /\ Len(representatives) = 3
    /\ Range(representatives) = Keys(db)
    /\ "heappush" \in invoked
    /\ Len(priority_queue) = 1
    /\ representatives[3] = priority_queue[1][2]

\* C3: a call with a non-positive target size on a non-empty database ends
\* in an error, it returns no list.
C3_NonPositiveSizeRejected ==
    (SelectCalled /\ Keys(db) # {} /\ max_size # None /\ max_size[1] <= 0)
        => pc = "error"

\* The exact marginal gain of seq_id against the current composite state.
CurrentGain(seq_id) ==
    compute_marginal_gain(objective[1], db, seq_id, sim_funcs, objective_data)

QueuedIds(pq) == {pq[i][2] : i \in 1..Len(pq)}

\* C4: with approximation ratio alpha > 1 the selection loop terminates.  A
\* loop iteration is a function of the queue, the selected list and the
\* objective data alone, so a terminating loop never ends an iteration with
\* all three as they were when it began.
C4_LoopProgresses ==
    [][(pc = "loop" /\ pc' = "loop" /\ min_relative_gain > 0)
          => <<priority_queue', representatives', objective_data'>>
                # <<priority_queue, representatives, objective_data>>]_vars

\* The objective data after the IDs of the sequence sel were selected in turn.
RECURSIVE DataAfter(_)
DataAfter(sel) ==
    IF sel = <<>> THEN InitialData(db, objective[1], sim_funcs)
    ELSE update_data(objective[1], db, sel[Len(sel)], sim_funcs,
                     DataAfter(SubSeq(sel, 1, Len(sel) - 1)))

Orderings(S) ==
    {f \in [1..Cardinality(S) -> S] : \A i, j \in 1..Cardinality(S) : i # j => f[i] # f[j]}

GainAfter(seq_id, sel) ==
    compute_marginal_gain(objective[1], db, seq_id, sim_funcs, DataAfter(sel))

\* Marginal gains are non-increasing as the selected set grows: selecting
\* one more ID never raises the gain of any other candidate.
GainsNonIncreasing ==
    \A c \in Keys(db) : \A S \in SUBSET (Keys(db) \ {c}) : \A sel \in Orderings(S) :
        \A x \in Keys(db) \ (S \cup {c}) :
            GainAfter(c, Append(sel, x)) <= GainAfter(c, sel)

\* C5: in exact mode with non-increasing marginal gains, a candidate the main
\* loop accepts has an exact current gain at least that of every candidate
\* still queued, as naive greedy would pick.
C5_ExactModeIsGreedy ==
    [][(/\ pc = "loop" /\ pc' = "loop"
        /\ min_relative_gain = 0
        /\ Len(representatives') = Len(representatives) + 1
        /\ GainsNonIncreasing)
          => \A other \in QueuedIds(priority_queue') :
                CurrentGain(representatives'[Len(representatives')]) >= CurrentGain(other)]_vars

\* Two candidates were accepted by the main loop in exact mode after
\* rejections, the second against bounds computed before the first was
\* selected, and the candidate left queued has a strictly smaller gain bound.
C5_Witness ==
    /\ pc = "loop"
    /\ min_relative_gain = 0
    /\ Len(representatives) = 2
    /\ Len(priority_queue) = 1
    /\ "heappush" \in invoked
    /\ GainsNonIncreasing
    /\ 0 - priority_queue[1][1] > CurrentGain(priority_queue[1][2])

\* C6: a call with an empty database raises before the priority queue is
\* built and before any objective operation is invoked.
C6_EmptyDatabaseRaisesFirst ==
    (SelectCalled /\ Keys(db) = {})
        => /\ pc = "error"
           /\ raised = EmptyDatabaseError
           /\ invoked = {}
           /\ priority_queue = <<>>
           /\ objective_data = <<>>
           /\ representatives = <<>>

\* The call was made with an empty database and ended in the error.
C6_Witness ==
    /\ SelectCalled /\ Keys(db) = {}
    /\ pc = "error" /\ raised = EmptyDatabaseError
    /\ Len(sim_funcs) = Len(objective[1].objectives)

\* C7: a call whose number of similarity functions differs from the number
\* of objectives raises ValueError eagerly: no queue, no objective operation,
\* no partial selection.
C7_SimFuncCountRaisesFirst ==
    (SelectCalled /\ Len(sim_funcs) # Len(objective[1].objectives))
        => /\ pc = "error"
           /\ raised # NoError /\ raised[1] = "ValueError"
           /\ invoked = {}
           /\ priority_queue = <<>>
           /\ objective_data = <<>>
           /\ representatives = <<>>

\* The call was made on a database of three IDs with one similarity function
\* for two objectives and ended in the count error.
C7_Witness ==
    /\ SelectCalled
    /\ Cardinality(Keys(db)) = 3
    /\ Len(sim_funcs) = 1 /\ Len(objective[1].objectives) = 2
    /\ pc = "error" /\ raised = SimFuncsError

\* C8: constructing a MixtureObjective whose objective and weight lists
\* differ in length fails at construction: ValueError, no MixtureObjective.
C8_MixtureLengthsChecked ==
    (mixture_args # None /\ Len(mixture_args[1]) # Len(mixture_args[2]))
        => /\ pc = "error"
           /\ raised = MixtureError
           /\ objective = None
           /\ invoked = {}

\* Two objectives were given one weight and the constructor raised.
C8_Witness ==
    /\ mixture_args # None
    /\ Len(mixture_args[1]) = 2 /\ Len(mixture_args[2]) = 1
    /\ pc = "error" /\ raised = MixtureError

\* Weights that are each within [0, 1] and sum to 1.
ValidMixtureWeights(weights) ==
    /\ \A i \in 1..Len(weights) : 0 <= weights[i] /\ weights[i] <= WeightUnit
    /\ SumFn(weights) = WeightUnit

\* C9: constructing a MixtureObjective with two objectives and two weights
\* that do not sum to 1, or with a weight outside [0, 1], raises ValueError.
C9_InvalidWeightsRejected ==
    (/\ mixture_args # None
     /\ Len(mixture_args[1]) = 2 /\ Len(mixture_args[2]) = 2
     /\ ~ValidMixtureWeights(mixture_args[2]))
        => (pc = "error" /\ raised # NoError /\ raised[1] = "ValueError")

\* C10: in exact mode the returned list is the same for every iteration
\* order of the database keys: a run on the same database, mixture,
\* similarity functions and K with the keys in any other order returns the
\* identical ordered list.
C10_KeyOrderIndependent ==
    (pc = "done" /\ min_relative_gain = 0)
        => \A order \in Orderings(Keys(db)) :
              SelectResult([db EXCEPT !.order = order], objective[1], sim_funcs,
                           max_representatives, min_relative_gain) = representatives

\* An exact run returned all three IDs of a database whose keys were not
\* inserted in ascending order, and its first pick tied with another
\* candidate on the initial gain.
C10_Witness ==
    /\ pc = "done" /\ min_relative_gain = 0
    /\ Len(db.order) = 3 /\ db.order[1] > db.order[2]
    /\ Len(representatives) = 3
    /\ \E other \in Keys(db) \ {representatives[1]} :
          GainAfter(other, <<>>) = GainAfter(representatives[1], <<>>)

\* C11: while the table is being read, every row (A, B, p) read so far has
\* B among the neighbors of A and A among the in_neighbors of B, each of the
\* two links holding the row's percent identity p.
C11_RowRecordedForward ==
    pc = "parse" =>
        \A i \in 1..Len(rows) :
            LET A == rows[i][1]
                B == rows[i][2]
                p == rows[i][3]
            IN /\ A \in Keys(db) /\ B \in Keys(db)
               /\ B \in DOMAIN db.entries[A].neighbors
               /\ A \in DOMAIN db.entries[B].in_neighbors
               /\ db.entries[A].neighbors[B].pct_identical = p
               /\ db.entries[B].in_neighbors[A].pct_identical = p

\* C12: a call of reduce_database_redundancy that ends without an exception
\* returns the resolved output path, in every mode (copy only, CD-HIT only,
\* RepSet only, both), and each mode has such a successful end.
C12_ReturnsOutputPath ==
    reduce_result # None =>
        /\ reduce_result[1].kind = "return"
        /\ reduce_result[1].value =
              <<ResolvedOutput(reduce_args[1].input_fasta, reduce_args[1].output_fasta)>>

\* C13: compute_similarity returns pct_identical / 100 whatever log10_e is:
\* every call on one percent identity returns the same score, the score is
\* the hundredth of the percent identity and lies in [0, 1]; 100 gives 1.0,
\* 0 gives 0.0 and 75 gives 0.75.
C13_FractionIdentity ==
    /\ \A e \in DOMAIN sim_results :
          /\ sim_results[e] * 100 = sim_pct[1] * ScoreUnit
          /\ 0 <= sim_results[e] /\ sim_results[e] <= ScoreUnit
          /\ sim_pct[1] = 100 => sim_results[e] = ScoreUnit
          /\ sim_pct[1] = 0 => sim_results[e] = 0
          /\ sim_pct[1] = 75 => sim_results[e] * 4 = 3 * ScoreUnit
    /\ \A e1 \in DOMAIN sim_results, e2 \in DOMAIN sim_results :
          sim_results[e1] = sim_results[e2]

C13_Witness ==
    /\ sim_pct = <<75>>
    /\ DOMAIN sim_results = LogEValues

\* the states of the facility-location objective: a best similarity so far,
\* or the sentinel, per sequence
BestSoFarValues == {UncoveredSentinel, 0} \cup {compute_similarity(-100, p) : p \in PctValues}

\* C14: on a parsed database (similarities in [0, 1]) the facility-location
\* evaluate is monotone, evaluate(T) >= evaluate(S) whenever S is a subset
\* of T, and the facility-location marginal gain of any candidate against
\* any state is >= 0.
C14_FacilityLocationMonotone ==
    pc = "parsed" =>
        /\ \A T \in SUBSET Keys(db) : \A S \in SUBSET T :
              summaxacross_eval(db, T, "compute_similarity")
                  >= summaxacross_eval(db, S, "compute_similarity")
        /\ \A c \in Keys(db) : \A data \in [Keys(db) -> BestSoFarValues] :
              summaxacross_diff(db, c, "compute_similarity", data) >= 0

C14_Witness ==
    /\ pc = "parsed"
    /\ Cardinality(Keys(db)) = 3
    /\ \E c \in Keys(db) : \E q \in Keys(db) \ {c} :
          /\ q \in DOMAIN db.entries[c].in_neighbors
          /\ summaxacross_eval(db, {c, q}, "compute_similarity")
                > summaxacross_eval(db, {c}, "compute_similarity")
          /\ summaxacross_eval(db, {c}, "compute_similarity") > ScoreUnit

\* the candidate the next loop iteration pops
PoppedId == heappop(priority_queue).item[2]

\* C15: in exact mode (min_relative_gain <= 0) a loop iteration that pops a
\* candidate already requeued since the last acceptance accepts it, so
\* between two acceptances each queued candidate is requeued at most once;
\* the requeues since the last acceptance never outnumber the queue, and
\* from every loop state the run reaches its return within LoopBudget
\* iterations.
C15_ExactModeTerminates ==
    /\ [][(/\ pc = "loop" /\ pc' = "loop"
           /\ min_relative_gain <= 0
           /\ PoppedId \in rejected_since_selection)
          => /\ representatives' = Append(representatives, PoppedId)
             /\ rejected_since_selection' = {}]_vars
    /\ [](pc = "loop" /\ min_relative_gain <= 0
              => /\ evaluations_since_last_selection <= Len(priority_queue)
                 /\ RunLoop(RunState, db, objective[1], sim_funcs, max_representatives,
                            min_relative_gain, LoopBudget(db)) # <<0>>)

C15_Witness ==
    /\ pc = "loop"
    /\ min_relative_gain <= 0
    /\ LoopCondition(representatives, priority_queue, max_representatives)
    /\ PoppedId \in rejected_since_selection
    /\ Cardinality(rejected_since_selection) >= 2

\* C16: a run that returns, on a database of n IDs with target size K >= 1
\* or K unbounded, returns exactly min(K, n) IDs (n when K is unbounded);
\* the single ID of a one-ID database is returned without any gain
\* evaluation.
C16_ReturnsMinKN ==
    (pc = "done" /\ (max_size = None \/ max_size[1] >= 1)) =>
        /\ Len(representatives) =
              IF max_size = None THEN Len(db.order)
              ELSE Min2(max_size[1], Len(db.order))
        /\ Len(db.order) = 1 =>
              /\ representatives = db.order
              /\ "diff_func" \notin invoked

C16_Witness ==
    /\ pc = "done"
    /\ Len(db.order) = 3
    /\ max_size = <<2>>
    /\ Len(representatives) = 2
    /\ "heappush" \in invoked

\* the queued and the selected IDs partition the database keys, each queued
\* ID being queued once
QueuePartition ==
    /\ QueuedIds(priority_queue) \cap Range(representatives) = {}
    /\ QueuedIds(priority_queue) \cup Range(representatives) = Keys(db)
    /\ Cardinality(QueuedIds(priority_queue)) = Len(priority_queue)
    /\ Len(priority_queue) + Len(representatives) = Cardinality(Keys(db))

\* C17 as stated: the queued and the selected IDs partition the database
\* keys from the start of the loop up to and including the return.
C17_PartitionUntilReturn == pc \in {"loop", "done"} => QueuePartition

\* C17: throughout the main selection loop, until the statement after the
\* loop, the queued IDs and the selected IDs are disjoint and together are
\* the database keys, each ID queued at most once, |queue| + |selected| =
\* |database|; an accepting iteration shrinks the queue by one entry and a
\* rejecting iteration by none. A final append leaves its ID queued: at the
\* return the queue and the selected list then share exactly that ID.
C17_PartitionInLoop ==
    /\ [](pc = "loop" => QueuePartition)
    /\ [][pc = "loop" /\ pc' = "loop" =>
            Len(priority_queue') = Len(priority_queue)
                - (Len(representatives') - Len(representatives))]_vars
    /\ [](pc = "done" =>
            /\ QueuedIds(priority_queue) \cup Range(representatives) = Keys(db)
            /\ Cardinality(QueuedIds(priority_queue)) = Len(priority_queue)
            /\ QueuedIds(priority_queue) \cap Range(representatives) \subseteq
                  {representatives[i] : i \in {Len(representatives)} \ {0}})

C17_Witness ==
    /\ pc = "done"
    /\ Len(representatives) = 3
    /\ Len(priority_queue) = 1
    /\ priority_queue[1][2] = representatives[3]
    /\ "heappush" \in invoked

\* C18: with marginal gains non-increasing as the selected set grows, at
\* every loop iteration the bound queued for a candidate, the negation of
\* its heap key (infinite for the sentinel), is at least the candidate's
\* exact gain against the current objective data; and no loop iteration
\* accepts a candidate while a queued candidate still carries the sentinel.
C18_BoundsValid ==
    /\ [](pc = "loop" =>
            \/ \A i \in 1..Len(priority_queue) :
                  0 - priority_queue[i][1] >= CurrentGain(priority_queue[i][2])
            \/ ~GainsNonIncreasing)
    /\ [][(pc = "loop" /\ pc' = "loop" /\ Len(representatives') > Len(representatives))
            => \A i \in 1..Len(priority_queue') :
                  priority_queue'[i][1] # initial_priority]_vars

C18_Witness ==
    /\ pc = "loop"
    /\ representatives # <<>>
    /\ \E i \in 1..Len(priority_queue) :
          /\ priority_queue[i][1] # initial_priority
          /\ 0 - priority_queue[i][1] > CurrentGain(priority_queue[i][2])
    /\ GainsNonIncreasing

\* the decision the next loop iteration takes on the candidate it pops
PoppedIsAccepted ==
    ShouldSelect(CurrentGain(PoppedId),
                 NextPossibleGain(heappop(priority_queue).heap),
                 min_relative_gain)

\* C19: a loop iteration that rejects the popped candidate leaves the
\* selected list and every objective's data unchanged and the set of queued
\* IDs unchanged: the queue differs only in the rejected candidate's entry,
\* now keyed by the negation of the exact gain just computed. An accepting
\* iteration, and no other, appends the popped candidate to the selected
\* list, removes its entry from the queue and advances the data of every
\* objective for that same candidate.
C19_IterationFrame ==
    [][(pc = "loop" /\ pc' = "loop") =>
         IF PoppedIsAccepted
         THEN /\ representatives' = Append(representatives, PoppedId)
              /\ Range(priority_queue') =
                    Range(priority_queue) \ {heappop(priority_queue).item}
              /\ Len(priority_queue') = Len(priority_queue) - 1
              /\ DOMAIN objective_data' = 1..Len(objective[1].objectives)
              /\ \A i \in DOMAIN objective_data' :
                    objective_data'[i] =
                        update_func(objective[1].objectives[i], db, PoppedId,
                                    sim_funcs[i], objective_data[i])
         ELSE /\ representatives' = representatives
              /\ objective_data' = objective_data
              /\ QueuedIds(priority_queue') = QueuedIds(priority_queue)
              /\ Len(priority_queue') = Len(priority_queue)
              /\ Range(priority_queue') =
                    (Range(priority_queue) \ {heappop(priority_queue).item})
                        \cup {<<0 - CurrentGain(PoppedId), PoppedId>>}]_vars

C19_Witness ==
    /\ pc = "loop"
    /\ Len(objective_data) = 2
    /\ Len(representatives) = 1
    /\ objective_data[2].selected = {representatives[1]}
    /\ rejected_since_selection # {}

\* C20: after any sequence of rows the database is transpose-consistent and
\* closed: Y is in the neighbors of X exactly when X is in the in_neighbors
\* of Y, the two links hold the same percent identity, every link ends at a
\* key, and every ID of a row read so far, in either column, is a key with
\* a neighbors and an in_neighbors map.
C20_TransposeConsistent ==
    /\ Keys(db) = DOMAIN db.entries
    /\ \A X \in Keys(db) :
          /\ DOMAIN db.entries[X] = {"neighbors", "in_neighbors"}
          /\ DOMAIN db.entries[X].neighbors \subseteq Keys(db)
          /\ DOMAIN db.entries[X].in_neighbors \subseteq Keys(db)
    /\ \A X \in Keys(db), Y \in Keys(db) :
          /\ Y \in DOMAIN db.entries[X].neighbors
                <=> X \in DOMAIN db.entries[Y].in_neighbors
          /\ Y \in DOMAIN db.entries[X].neighbors =>
                db.entries[X].neighbors[Y].pct_identical
                    = db.entries[Y].in_neighbors[X].pct_identical
    /\ pc = "parse" =>
          \A i \in 1..Len(rows) : {rows[i][1], rows[i][2]} \subseteq Keys(db)

C20_Witness ==
    /\ pc = "parse"
    /\ Len(rows) = 2
    /\ rows[1][3] # rows[2][3]
    /\ Cardinality(Keys(db)) = 3
    /\ \E X \in Keys(db), Y \in Keys(db) :
          /\ Y \in DOMAIN db.entries[X].neighbors
          /\ X \notin DOMAIN db.entries[Y].neighbors

====
